---- MODULE Spec2Model ----
(***************************************************************************)
(* Model of the order-preserving map of orderedmap.go (OrderedMapImpl):    *)
(* the mutation API (Set, Delete, Sort), the two-pass JSON decoder         *)
(* (BoundUnmarshalJSON, decodeOrderedMap, decodeSlice) and the encoder     *)
(* (MarshalJSON); of the variant of the map that checks documents for      *)
(* duplicate keys (CheckDuplicate, UnmarshalJSON with jsonLastValueWins);  *)
(* and of the iterators over the map (PairsIterator, ValuesIterator).      *)
(* The encoding/json and sort packages are not part of the repository;     *)
(* they are modelled by their documented behaviour.                        *)
(***************************************************************************)
EXTENDS Integers, Sequences, FiniteSets, TLC

VARIABLES
    keys,        \* OrderedMapImpl.keys   : sequence of strings
    values,      \* OrderedMapImpl.values : function from strings to dynamic values
    escapeHTML,  \* OrderedMapImpl.escapeHTML
    last,        \* the last operation called, its arguments and its results
    built,       \* which kinds of operation have shaped the map so far
    stamp,       \* rank of each present key's latest insertion-while-absent
    deleted,     \* the keys Delete has removed so far
    input,       \* the document the caller holds (codec runs), else NoDoc
    jsonLastValueWins,  \* OrderedMap.jsonLastValueWins (the variant with CheckDuplicate)
    it           \* the iterator over the map, NoIter while there is none

vars == <<keys, values, escapeHTML, last, built, stamp, deleted, input,
          jsonLastValueWins, it>>

----------------------------------------------------------------------------
(* Bounds of the model.                                                    *)

\* the longest key sequence an operation may produce
MaxKeys == 3

\* the nesting depth taken as the maximum a depth guard would allow (the
\* code has no such constant); the documents of Docs go one level deeper
MaxDepth == 3

\* keys given to Set and Delete
KeySet == {"a", "b", "c"}

\* total order on the strings used as keys (Go's string order)
KeyOrder == <<"a", "b", "c">>

----------------------------------------------------------------------------
(* Small helpers on functions and sequences.                               *)

EmptyMap == [x \in {} |-> 0]

Put(f, k, v) == [x \in (DOMAIN f) \cup {k} |-> IF x = k THEN v ELSE f[x]]

Remove(f, k) == [x \in (DOMAIN f) \ {k} |-> f[x]]

Range(s) == {s[i] : i \in DOMAIN s}

NoDup(s) == \A i, j \in DOMAIN s : i # j => s[i] # s[j]

RECURSIVE Flatten(_)
Flatten(ss) == IF ss = <<>> THEN <<>> ELSE Head(ss) \o Flatten(Tail(ss))

\* the elements of s joined by the separator sequence sep
RECURSIVE Join(_, _)
Join(ss, sep) ==
    IF ss = <<>> THEN <<>>
    ELSE IF Len(ss) = 1 THEN Head(ss)
    ELSE Head(ss) \o sep \o Join(Tail(ss), sep)

\* s without its first occurrence of x, the rest keeping its order
\* (append(s[:i], s[i+1:]...) at the first i with s[i] = x)
RemoveFirst(s, x) ==
    IF x \notin Range(s) THEN s
    ELSE LET i == CHOOSE n \in DOMAIN s : s[n] = x /\ \A m \in 1..(n-1) : s[m] # x
         IN  [n \in 1..(Len(s) - 1) |-> IF n < i THEN s[n] ELSE s[n + 1]]

----------------------------------------------------------------------------
(* Dynamic values (Go interface{} values held by the map).                 *)

Nil        == [t |-> "nil"]
Num(n)     == [t |-> "num", n |-> n]                 \* float64 / int
Str(s)     == [t |-> "str", s |-> s]                 \* string
GoMap(m)   == [t |-> "map", m |-> m]                 \* map[string]interface{}
Slice(e)   == [t |-> "slice", e |-> e]               \* []interface{}
OMapVal(o) == [t |-> "omap", keys |-> o.keys, values |-> o.values,
               escapeHTML |-> o.escapeHTML]           \* a nested OrderedMap

\* o.values[key]: the nil interface when the key is absent
ValueAt(vals, key) == IF key \in DOMAIN vals THEN vals[key] ELSE Nil

----------------------------------------------------------------------------
(* JSON documents, as syntax trees in document order.                      *)

JNull       == [j |-> "null"]
JNum(lit)   == [j |-> "num", lit |-> lit]
JStr(s)     == [j |-> "str", s |-> s]
JArr(elems) == [j |-> "arr", elems |-> elems]
JObj(pairs) == [j |-> "obj", pairs |-> pairs]       \* pairs: sequence of <<key, value>>

\* strconv.ParseFloat on the number literals of the model
ParseNum(lit) == CASE lit = "1" -> 1 [] lit = "2" -> 2 [] lit = "2.0" -> 2 [] OTHER -> 0

\* the index of the last pair of an object's pairs that has key k
LastIndexOf(pairs, k) ==
    CHOOSE i \in DOMAIN pairs : pairs[i][1] = k /\ \A m \in (i+1)..Len(pairs) : pairs[m][1] # k

PairKeys(pairs) == [i \in DOMAIN pairs |-> pairs[i][1]]

----------------------------------------------------------------------------
(* encoding/json, typed pass: json.Unmarshal into map[string]interface{}.  *)

\* the value json.Unmarshal stores in an interface{}: float64, string,
\* []interface{}, map[string]interface{} (the last occurrence of a repeated
\* key wins) or nil
RECURSIVE Generic(_)
Generic(jv) ==
    CASE jv.j = "null" -> Nil
      [] jv.j = "num"  -> Num(ParseNum(jv.lit))
      [] jv.j = "str"  -> Str(jv.s)
      [] jv.j = "arr"  -> Slice([i \in DOMAIN jv.elems |-> Generic(jv.elems[i])])
      [] jv.j = "obj"  ->
            GoMap([k \in Range(PairKeys(jv.pairs)) |->
                       Generic(jv.pairs[LastIndexOf(jv.pairs, k)][2])])

\* json.Unmarshal(b, &val) with val a non-nil map[string]interface{}: an
\* object is merged into the existing map (existing entries are kept, the
\* document's entries are decoded afresh); null leaves the map alone and
\* is no error; any other top-level value is an UnmarshalTypeError
jsonUnmarshal(b, val) ==
    CASE b.j = "obj"  ->
            [err |-> "nil",
             val |-> LET g == Generic(b).m
                     IN  [k \in (DOMAIN val) \cup (DOMAIN g) |->
                              IF k \in DOMAIN g THEN g[k] ELSE val[k]]]
      [] b.j = "null" -> [err |-> "nil", val |-> val]
      [] OTHER        -> [err |-> "UnmarshalTypeError", val |-> val]

----------------------------------------------------------------------------
(* encoding/json, order pass: the token stream of json.Decoder.Token.      *)

Delim(d)  == [k |-> "delim", d |-> d]        \* json.Delim
StrTok(s) == [k |-> "string", s |-> s]       \* string (a key or a string value)
NumTok(n) == [k |-> "number", n |-> n]       \* float64
NullTok   == [k |-> "null"]                  \* nil

IsDelim(token, d) == token.k = "delim" /\ token.d = d

RECURSIVE Tokens(_)
Tokens(jv) ==
    CASE jv.j = "null" -> <<NullTok>>
      [] jv.j = "num"  -> <<NumTok(ParseNum(jv.lit))>>
      [] jv.j = "str"  -> <<StrTok(jv.s)>>
      [] jv.j = "arr"  ->
            <<Delim("[")>>
            \o Flatten([i \in DOMAIN jv.elems |-> Tokens(jv.elems[i])])
            \o <<Delim("]")>>
      [] jv.j = "obj"  ->
            <<Delim("{")>>
            \o Flatten([i \in DOMAIN jv.pairs |->
                            <<StrTok(jv.pairs[i][1])>> \o Tokens(jv.pairs[i][2])])
            \o <<Delim("}")>>

----------------------------------------------------------------------------
(* The ordered map and its decoder.                                        *)

\* New()
New == [keys |-> <<>>, values |-> EmptyMap, escapeHTML |-> TRUE]

\* a Clone that builds the nested map with the constructor's settings
CloneLiteral(o, om) == [keys |-> <<>>, values |-> om, escapeHTML |-> TRUE]

\* o.Clone(om): a map over the given Go map (shared, not copied), with no
\* keys yet and the receiver's escapeHTML
Clone(o, om) == [keys |-> <<>>, values |-> om, escapeHTML |-> o.escapeHTML]

\* a duplicate-key branch that leaves the key where it first stood
MoveToEndKeepsPlace(ks, key) == ks

\* the duplicate-key branch of decodeOrderedMap: the tail after the first
\* occurrence of key is copied one place down and key is written last
MoveToEnd(ks, key) ==
    IF key \in Range(ks)
    THEN LET j == CHOOSE n \in DOMAIN ks : ks[n] = key /\ \A m \in 1..(n-1) : ks[m] # key
         IN  [n \in DOMAIN ks |-> IF n = Len(ks) THEN key
                                  ELSE IF n < j THEN ks[n] ELSE ks[n + 1]]
    ELSE [n \in DOMAIN ks |-> IF n = Len(ks) THEN key ELSE ks[n]]

\* a decoder that forgets to store the rebuilt nested map
StoreValueDropped(vals, key, newMap) == vals

\* o.Values()[key] = newMap: the rebuilt nested map replaces the Go map
StoreValue(vals, key, newMap) == Put(vals, key, OMapVal(newMap))

\* a decoder that forgets to store the rebuilt element
StoreElemDropped(s, index, newMap) == s

\* s[index] = newMap: the same for an element of a slice
StoreElem(s, index, newMap) == [s EXCEPT ![index] = OMapVal(newMap)]

\* what a decoding function returns: the error, the reader's position and
\* the map (or slice) it worked on, as its in-place updates left it
Ret(err, pos, v) == [err |-> err, pos |-> pos, v |-> v]

RECURSIVE decodeOrderedMap(_, _, _, _)
RECURSIVE decodeSlice(_, _, _, _, _)

\* decodeOrderedMap(dec, o), entered with the reader at pos and the set
\* hasKey of the keys met so far in this object
decodeOrderedMap(dec, pos, o, hasKey) ==
    IF pos > Len(dec) THEN Ret("EOF", pos, o)
    ELSE
    LET token == dec[pos] IN
    IF IsDelim(token, "}") THEN Ret("nil", pos + 1, o)
    ELSE
    LET key == token.s
        o1  == [o EXCEPT !.keys = IF key \in hasKey THEN MoveToEnd(o.keys, key)
                                  ELSE Append(o.keys, key)]
        hk  == hasKey \cup {key}
    IN
    IF pos + 1 > Len(dec) THEN Ret("EOF", pos + 1, o1)
    ELSE
    LET t2  == dec[pos + 1]
        cur == ValueAt(o1.values, key)
    IN
    IF IsDelim(t2, "{") THEN
        IF cur.t \in {"map", "omap"} THEN
            LET r == decodeOrderedMap(dec, pos + 2,
                         Clone(o1, IF cur.t = "map" THEN cur.m ELSE cur.values), {})
            IN  IF r.err # "nil"
                THEN Ret(r.err, r.pos,
                         [o1 EXCEPT !.values =
                             Put(o1.values, key,
                                 IF cur.t = "map" THEN GoMap(r.v.values)
                                 ELSE [cur EXCEPT !.values = r.v.values])])
                ELSE decodeOrderedMap(dec, r.pos,
                         [o1 EXCEPT !.values = StoreValue(o1.values, key, r.v)], hk)
        ELSE
            LET r == decodeOrderedMap(dec, pos + 2, Clone(o1, EmptyMap), {})
            IN  IF r.err # "nil" THEN Ret(r.err, r.pos, o1)
                ELSE decodeOrderedMap(dec, r.pos, o1, hk)
    ELSE IF IsDelim(t2, "[") THEN
        IF cur.t = "slice" THEN
            LET r  == decodeSlice(dec, pos + 2, cur.e, 1, o1)
                o2 == [o1 EXCEPT !.values = Put(o1.values, key, Slice(r.v))]
            IN  IF r.err # "nil" THEN Ret(r.err, r.pos, o2)
                ELSE decodeOrderedMap(dec, r.pos, o2, hk)
        ELSE
            LET r == decodeSlice(dec, pos + 2, <<>>, 1, o1)
            IN  IF r.err # "nil" THEN Ret(r.err, r.pos, o1)
                ELSE decodeOrderedMap(dec, r.pos, o1, hk)
    ELSE decodeOrderedMap(dec, pos + 2, o1, hk)

\* decodeSlice(dec, s, o), entered with the reader at pos and the loop
\* counter at index (1-based: the code's index + 1)
decodeSlice(dec, pos, s, index, o) ==
    IF pos > Len(dec) THEN Ret("EOF", pos, s)
    ELSE
    LET token == dec[pos]
        cur   == IF index <= Len(s) THEN s[index] ELSE Nil
    IN
    IF IsDelim(token, "{") THEN
        IF index <= Len(s) /\ cur.t \in {"map", "omap"} THEN
            LET r == decodeOrderedMap(dec, pos + 1,
                         Clone(o, IF cur.t = "map" THEN cur.m ELSE cur.values), {})
            IN  IF r.err # "nil"
                THEN Ret(r.err, r.pos,
                         [s EXCEPT ![index] =
                             IF cur.t = "map" THEN GoMap(r.v.values)
                             ELSE [cur EXCEPT !.values = r.v.values]])
                ELSE decodeSlice(dec, r.pos, StoreElem(s, index, r.v), index + 1, o)
        ELSE
            LET r == decodeOrderedMap(dec, pos + 1, Clone(o, EmptyMap), {})
            IN  IF r.err # "nil" THEN Ret(r.err, r.pos, s)
                ELSE decodeSlice(dec, r.pos, s, index + 1, o)
    ELSE IF IsDelim(token, "[") THEN
        IF index <= Len(s) /\ cur.t = "slice" THEN
            LET r  == decodeSlice(dec, pos + 1, cur.e, 1, o)
                s2 == [s EXCEPT ![index] = Slice(r.v)]
            IN  IF r.err # "nil" THEN Ret(r.err, r.pos, s2)
                ELSE decodeSlice(dec, r.pos, s2, index + 1, o)
        ELSE
            LET r == decodeSlice(dec, pos + 1, <<>>, 1, o)
            IN  IF r.err # "nil" THEN Ret(r.err, r.pos, s)
                ELSE decodeSlice(dec, r.pos, s, index + 1, o)
    ELSE IF IsDelim(token, "]") THEN Ret("nil", pos + 1, s)
    ELSE decodeSlice(dec, pos + 1, s, index + 1, o)

\* a decoder without the order pass: the keys come out of the Go map
BoundUnmarshalJSONTypedOnly(o, b) ==
    LET u == jsonUnmarshal(b, o.values) IN
    IF u.err # "nil" THEN [err |-> u.err, o |-> o]
    ELSE [err |-> "nil",
          o   |-> [o EXCEPT !.values = u.val,
                            !.keys = SelectSeq(KeyOrder,
                                               LAMBDA k : k \in DOMAIN u.val)]]

\* BoundUnmarshalJSON(o, b): the typed pass into o's own values map, then
\* the order pass from the second token on, appending to o's keys
BoundUnmarshalJSON(o, b) ==
    LET u == jsonUnmarshal(b, o.values) IN
    IF u.err # "nil" THEN [err |-> u.err, o |-> o]
    ELSE LET r == decodeOrderedMap(Tokens(b), 2, [o EXCEPT !.values = u.val], {})
         IN  [err |-> r.err, o |-> r.v]

----------------------------------------------------------------------------
(* The variant of the map with a duplicate-key policy: OrderedMap with     *)
(* jsonLastValueWins, CheckDuplicate and UnmarshalJSON.  Its               *)
(* decodeOrderedMap and decodeSlice are those above with Clone written out *)
(* as a struct literal (keys empty, the given values, the parent's         *)
(* escapeHTML), so the operators above stand for them.                     *)

ErrJSONDuplicate == "ErrJSONDuplicate"

\* what CheckDuplicate returns: the error, the key a duplicate error
\* names, and the reader's position
Checked(err, key, pos) == [err |-> err, key |-> key, pos |-> pos]

\* d.More(): there is a next element in the current array or object
More(d, pos) == pos <= Len(d) /\ ~IsDelim(d[pos], "]") /\ ~IsDelim(d[pos], "}")

\* a check that never records the keys it has seen
SeenDropped(seen, key) == seen

\* keys[key] = true
Seen(seen, key) == seen \cup {key}

RECURSIVE CheckDuplicate(_, _)
RECURSIVE CheckObject(_, _, _)
RECURSIVE CheckArray(_, _)

\* CheckDuplicate(d), entered with the reader at pos
CheckDuplicate(d, pos) ==
    IF pos > Len(d) THEN Checked("EOF", "", pos)
    ELSE LET t == d[pos] IN
         IF t.k # "delim" THEN Checked("nil", "", pos + 1)
         ELSE IF t.d = "{" THEN CheckObject(d, pos + 1, {})
         ELSE IF t.d = "[" THEN CheckArray(d, pos + 1)
         ELSE Checked("nil", "", pos + 1)

\* case '{' of CheckDuplicate: the loop over the fields, with the keys seen
\* so far in this object, then the closing brace
CheckObject(d, pos, seen) ==
    IF More(d, pos) THEN
        LET key == d[pos].s IN
        IF key \in seen THEN Checked(ErrJSONDuplicate, key, pos + 1)
        ELSE LET r == CheckDuplicate(d, pos + 1)
             IN  IF r.err # "nil" THEN r
                 ELSE CheckObject(d, r.pos, Seen(seen, key))
    ELSE IF pos > Len(d) THEN Checked("EOF", "", pos)
    ELSE Checked("nil", "", pos + 1)

\* case '[' of CheckDuplicate: the loop over the elements, then the
\* closing bracket
CheckArray(d, pos) ==
    IF More(d, pos) THEN
        LET r == CheckDuplicate(d, pos)
        IN  IF r.err # "nil" THEN r ELSE CheckArray(d, r.pos)
    ELSE IF pos > Len(d) THEN Checked("EOF", "", pos)
    ELSE Checked("nil", "", pos + 1)

\* a nil Go map: it reads as the empty map
NilMap == EmptyMap

\* json.Unmarshal(b, &o.values), the pointer being to the map's own
\* field: as jsonUnmarshal, but null sets the field to the nil map
jsonUnmarshalField(b, val) ==
    IF b.j = "null" THEN [err |-> "nil", val |-> NilMap] ELSE jsonUnmarshal(b, val)

\* OrderedMap.UnmarshalJSON of this variant: the duplicate check unless
\* jsonLastValueWins, the typed pass into o.values, the first token
\* skipped, the keys reset, then the order pass
UnmarshalJSON(o, b) ==
    LET c == IF ~o.jsonLastValueWins THEN CheckDuplicate(Tokens(b), 1)
             ELSE Checked("nil", "", 1)
    IN
    IF c.err # "nil" THEN [err |-> c.err, key |-> c.key, o |-> o]
    ELSE
    LET u  == jsonUnmarshalField(b, o.values)
        o1 == [o EXCEPT !.values = u.val]
    IN
    IF u.err # "nil" THEN [err |-> u.err, key |-> "", o |-> o1]
    ELSE LET r == decodeOrderedMap(Tokens(b), 2, [o1 EXCEPT !.keys = <<>>], {})
         IN  [err |-> r.err, key |-> "", o |-> r.v]

----------------------------------------------------------------------------
(* encoding/json, encoding.  Output bytes are modelled as a sequence of    *)
(* chunks: each punctuation byte, each newline and each scalar literal is  *)
(* one chunk, so two outputs are the same bytes iff they are the same      *)
(* chunk sequence.                                                         *)

\* the characters encoding/json replaces when escapeHTML is on
HTMLEscape(s) == CASE s = "<" -> "\\u003c" [] OTHER -> s

\* a Go string as a JSON string literal
Quote(s, esc) == "\"" \o (IF esc THEN HTMLEscape(s) ELSE s) \o "\""

\* strconv formatting of the numbers of the model
FormatNum(n) == CASE n = 1 -> "1" [] n = 2 -> "2" [] OTHER -> "0"

\* the keys of a Go map in the order encoding/json writes them (sorted)
SortedKeys(m) == SelectSeq(KeyOrder, LAMBDA k : k \in DOMAIN m)

\* json's compact(): insignificant whitespace is dropped from a
\* Marshaler's output and, when escape is on, HTML characters inside
\* string literals are escaped
Compact(chunks, escape) ==
    LET kept == SelectSeq(chunks, LAMBDA c : c # "\n")
    IN  [i \in DOMAIN kept |->
            IF escape /\ kept[i] = Quote("<", FALSE) THEN Quote("<", TRUE) ELSE kept[i]]

RECURSIVE jsonEncode(_, _)
RECURSIVE MarshalJSON(_)

\* (*json.Encoder).Encode(v): the encoding of v followed by a newline
EncoderEncode(v, esc) == jsonEncode(v, esc) \o <<"\n">>

\* the JSON encoding of a dynamic value with the given escapeHTML option;
\* a nested ordered map is a json.Marshaler: its MarshalJSON output is
\* compacted into the stream
jsonEncode(v, esc) ==
    CASE v.t = "nil"   -> <<"null">>
      [] v.t = "num"   -> <<FormatNum(v.n)>>
      [] v.t = "str"   -> <<Quote(v.s, esc)>>
      [] v.t = "slice" ->
            <<"[">> \o Join([i \in DOMAIN v.e |-> jsonEncode(v.e[i], esc)], <<",">>)
                    \o <<"]">>
      [] v.t = "map"   ->
            LET ks == SortedKeys(v.m)
            IN  <<"{">> \o Join([i \in DOMAIN ks |->
                                    <<Quote(ks[i], esc), ":">> \o jsonEncode(v.m[ks[i]], esc)],
                                <<",">>)
                        \o <<"}">>
      [] v.t = "omap"  -> Compact(MarshalJSON(v), esc)

\* OrderedMapImpl.MarshalJSON
MarshalJSON(o) ==
    <<"{">>
    \o Flatten([i \in DOMAIN o.keys |->
                   (IF i > 1 THEN <<",">> ELSE <<>>)
                   \o EncoderEncode(Str(o.keys[i]), o.escapeHTML)
                   \o <<":">>
                   \o EncoderEncode(ValueAt(o.values, o.keys[i]), o.escapeHTML)])
    \o <<"}">>

\* json.Marshal(o), as the tests call the encoder: the Marshaler's output
\* compacted, with json.Marshal's own escapeHTML (always on)
jsonMarshal(o) == Compact(MarshalJSON(o), TRUE)

----------------------------------------------------------------------------
(* The mutation and sort API of OrderedMapImpl, as functions of the map.   *)

\* a Set that appends the key whether or not it is present
SetAppendAlways(o, key, value) ==
    [o EXCEPT !.keys = Append(o.keys, key), !.values = Put(o.values, key, value)]

\* a Set that moves an overwritten key to the end
SetMoveToEnd(o, key, value) ==
    [o EXCEPT !.keys   = Append(SelectSeq(o.keys, LAMBDA x : x # key), key),
              !.values = Put(o.values, key, value)]

\* OrderedMapImpl.Set
Set(o, key, value) ==
    [o EXCEPT !.keys   = IF key \notin DOMAIN o.values THEN Append(o.keys, key)
                         ELSE o.keys,
              !.values = Put(o.values, key, value)]

\* a Delete that fills the hole with the last key
DeleteSwapLast(o, key) ==
    IF key \notin DOMAIN o.values \/ key \notin Range(o.keys) THEN o
    ELSE LET i == CHOOSE n \in DOMAIN o.keys : o.keys[n] = key
             n == Len(o.keys)
         IN  [o EXCEPT !.keys = [m \in 1..(n - 1) |-> IF m = i THEN o.keys[n] ELSE o.keys[m]],
                       !.values = Remove(o.values, key)]

\* OrderedMapImpl.Delete
Delete(o, key) ==
    IF key \notin DOMAIN o.values THEN o
    ELSE [o EXCEPT !.keys = RemoveFirst(o.keys, key), !.values = Remove(o.values, key)]

\* the less functions handed to Sort
LessFuncs == {"byKey", "byValueDesc", "never", "always"}

KeyRank(k) == CHOOSE i \in DOMAIN KeyOrder : KeyOrder[i] = k

\* the number a less function compares a value by
Rank(v) == IF v.t = "num" THEN v.n ELSE 0

\* lessFunc(a, b) for the named less function
Less(f, a, b) ==
    CASE f = "byKey"       -> KeyRank(a.key) < KeyRank(b.key)
      [] f = "byValueDesc" -> Rank(a.value) > Rank(b.value)
      [] f = "never"       -> FALSE
      [] f = "always"      -> TRUE

\* whether f is a strict weak order on the given pairs
StrictWeak(f, pairs) ==
    LET P == Range(pairs)
        Eq(a, b) == ~Less(f, a, b) /\ ~Less(f, b, a)
    IN  /\ \A a \in P : ~Less(f, a, a)
        /\ \A a, b, c \in P : Less(f, a, b) /\ Less(f, b, c) => Less(f, a, c)
        /\ \A a, b, c \in P : Eq(a, b) /\ Eq(b, c) => Eq(a, c)

\* whether no later element of s is less than an earlier one
Ordered(f, s) == \A i, j \in DOMAIN s : i < j => ~Less(f, s[j], s[i])

\* sort.Sort(ByPair{pairs, lessFunc}): the data is rearranged by Swap, so
\* the result is a permutation of the pairs; it is in the order of
\* lessFunc when that is a strict weak order; the sort is not stable, so
\* equal-ranked elements may end in any order
sortSort(pairs, f) ==
    LET perms == {[i \in DOMAIN pairs |-> pairs[pi[i]]] : pi \in Permutations(DOMAIN pairs)}
    IN  IF StrictWeak(f, pairs) THEN {q \in perms : Ordered(f, q)} ELSE perms

\* the pairs Sort builds from the map
PairsOf(o) == [i \in DOMAIN o.keys |->
                  [key |-> o.keys[i], value |-> ValueAt(o.values, o.keys[i])]]

\* a Sort whose pairs do not carry the values
SortWithoutValues(o, f) ==
    {[o EXCEPT !.keys = [i \in DOMAIN q |-> q[i].key]] :
        q \in sortSort([i \in DOMAIN o.keys |-> [key |-> o.keys[i], value |-> Nil]], f)}

\* a Sort that writes the first pair's key back to every position
SortFirstKeyEverywhere(o, f) ==
    {[o EXCEPT !.keys = [i \in DOMAIN q |-> q[1].key]] : q \in sortSort(PairsOf(o), f)}

\* OrderedMapImpl.Sort: the maps the call can leave
Sort(o, f) ==
    {[o EXCEPT !.keys = [i \in DOMAIN q |-> q[i].key]] : q \in sortSort(PairsOf(o), f)}

----------------------------------------------------------------------------
(* The state machine: one map, created by New(), and the calls made on it. *)

Self == [keys |-> keys, values |-> values, escapeHTML |-> escapeHTML]

\* the values given to Set
SetValues == {Num(1), Num(2)}

\* the documents given to UnmarshalJSON in Spec
FlatValues == {JNum("1"), JNum("2")}
FlatPairs  == {<<k, v>> : k \in {"a", "b"}, v \in FlatValues}
SmallDocs  ==
    {JObj(<<>>)}
    \cup {JObj(<<p>>) : p \in FlatPairs}
    \cup {JObj(<<p, q>>) : p \in FlatPairs, q \in FlatPairs}
    \cup {JNull, JArr(<<>>)}

NoDoc == [j |-> "none"]

\* no iterator has been made
NoIter == [kind |-> "none"]

\* the record of a call: its arguments, whether Set or Delete found the
\* key (the code's exists / ok), the error, the bytes returned and the key
\* a duplicate-key error names
Called(op) == [op |-> op, key |-> "", val |-> Nil, had |-> FALSE, less |-> "",
               doc |-> NoDoc, err |-> "nil", out |-> <<>>, dup |-> ""]

Become(o) ==
    /\ keys' = o.keys
    /\ values' = o.values
    /\ escapeHTML' = o.escapeHTML

\* History of the calls, kept while only Set and Delete have been called
\* (built = "mutation"): stamp ranks the present keys by the time of their
\* latest Set that found them absent, deleted holds the keys removed so far.
\* Ranks stand for call times: a key set while absent gets the
\* highest rank, a deleted key leaves and the later ranks close the gap
StampSet(key) ==
    IF built # "mutation" THEN stamp
    ELSE IF key \in DOMAIN stamp THEN stamp
    ELSE Put(stamp, key, Cardinality(DOMAIN stamp) + 1)

StampDelete(key) ==
    IF built # "mutation" \/ key \notin DOMAIN stamp THEN stamp
    ELSE [k \in (DOMAIN stamp) \ {key} |->
             IF stamp[k] > stamp[key] THEN stamp[k] - 1 ELSE stamp[k]]

Init ==
    /\ keys = New.keys
    /\ values = New.values
    /\ escapeHTML = New.escapeHTML
    /\ last = Called("New")
    /\ built = "mutation"
    /\ stamp = EmptyMap
    /\ deleted = {}
    /\ input = NoDoc
    /\ jsonLastValueWins = FALSE
    /\ it = NoIter

CallSet(key, value) ==
    /\ key \in DOMAIN values \/ Len(keys) < MaxKeys
    /\ Become(Set(Self, key, value))
    /\ last' = [Called("Set") EXCEPT !.key = key, !.val = value,
                                     !.had = (key \in DOMAIN values)]
    /\ stamp' = StampSet(key)
    /\ UNCHANGED <<built, deleted, input, jsonLastValueWins, it>>

CallDelete(key) ==
    /\ Become(Delete(Self, key))
    /\ last' = [Called("Delete") EXCEPT !.key = key, !.had = (key \in DOMAIN values)]
    /\ stamp' = StampDelete(key)
    /\ deleted' = IF built = "mutation" /\ key \in DOMAIN stamp
                  THEN deleted \cup {key} ELSE deleted
    /\ UNCHANGED <<built, input, jsonLastValueWins, it>>

CallSort(f) ==
    /\ \E o \in Sort(Self, f) : Become(o)
    /\ last' = [Called("Sort") EXCEPT !.less = f]
    /\ built' = IF built = "mutation" THEN "sorted" ELSE built
    /\ stamp' = EmptyMap
    /\ deleted' = {}
    /\ UNCHANGED <<input, jsonLastValueWins, it>>

CallSetEscapeHTML(on) ==
    /\ escapeHTML' = on
    /\ last' = Called("SetEscapeHTML")
    /\ UNCHANGED <<keys, values, built, stamp, deleted, input, jsonLastValueWins, it>>

CallUnmarshalJSON(b) ==
    LET r == BoundUnmarshalJSON(Self, b) IN
    /\ Len(r.o.keys) <= MaxKeys
    /\ Become(r.o)
    /\ last' = [Called("UnmarshalJSON") EXCEPT !.doc = b, !.err = r.err]
    /\ built' = IF last.op \in {"New", "SetEscapeHTML"} THEN "decodedNew" ELSE "decoded"
    /\ stamp' = EmptyMap
    /\ deleted' = {}
    /\ UNCHANGED <<input, jsonLastValueWins, it>>

CallMarshalJSON ==
    /\ last' = [Called("MarshalJSON") EXCEPT !.out = MarshalJSON(Self)]
    /\ UNCHANGED <<keys, values, escapeHTML, built, stamp, deleted, input,
                   jsonLastValueWins, it>>

CalljsonMarshal ==
    /\ last' = [Called("jsonMarshal") EXCEPT !.out = jsonMarshal(Self)]
    /\ UNCHANGED <<keys, values, escapeHTML, built, stamp, deleted, input,
                   jsonLastValueWins, it>>

Next ==
    \/ \E key \in KeySet, value \in SetValues : CallSet(key, value)
    \/ \E key \in KeySet : CallDelete(key)
    \/ \E f \in LessFuncs : CallSort(f)
    \/ \E b \in SmallDocs : CallUnmarshalJSON(b)

Spec == Init /\ [][Next]_vars

----------------------------------------------------------------------------
(* The codec as a function of the document: New(), possibly                *)
(* SetEscapeHTML or one Set, then UnmarshalJSON of the document the caller *)
(* holds, then the encoder on the result.                                  *)

Scalars   == {JNum("1"), JNum("2.0"), JStr("}"), JStr("a"), JStr("<")}
Empties   == {JObj(<<>>), JArr(<<>>)}
InnerKeys == {"a", "b"}
InnerVals == {JNum("1"), JObj(<<>>)}
InnerPairs == {<<k, v>> : k \in InnerKeys, v \in InnerVals}

\* objects of scalars and empty objects, keys in either order or repeated
Objs1 == {JObj(<<p>>) : p \in InnerPairs}
         \cup {JObj(<<p, q>>) : p \in InnerPairs, q \in InnerPairs}

ObjBA == JObj(<< <<"b", JNum("1")>>, <<"a", JStr("<")>> >>)

\* arrays of scalars, objects and arrays
Elems1 == {JNum("1"), ObjBA, JArr(<<>>)}
Arrs1  == {JArr(<<x>>) : x \in Elems1} \cup {JArr(<<x, y>>) : x \in Elems1, y \in Elems1}

\* one level deeper: objects and arrays holding objects and arrays
Inner2 == {ObjBA, JArr(<<ObjBA>>), JArr(<<JNum("1"), ObjBA>>)}
Objs2  == {JObj(<< <<k, x>> >>) : k \in InnerKeys, x \in Inner2}
          \cup {JObj(<< <<"b", x>>, <<"a", JNum("1")>> >>) : x \in Inner2}
Arrs2  == {JArr(<<x>>) : x \in Inner2}
          \cup {JArr(<<JNum("1"), x>>) : x \in Inner2}
          \cup {JArr(<<x, JObj(<< <<"a", JNum("1")>> >>)>>) : x \in Inner2}

RootVals  == Scalars \cup Empties \cup Objs1 \cup Arrs1 \cup Objs2 \cup Arrs2
RootPairs == {<<k, v>> : k \in InnerKeys, v \in RootVals}
WidePairs == {<<k, v>> : k \in KeySet, v \in {JNum("1"), JStr("a")}}

\* objects with a key twice, and such objects under a key, in an array
\* and in an array of arrays
ObjAA   == JObj(<< <<"a", JNum("1")>>, <<"a", JNum("2")>> >>)
ObjABA  == JObj(<< <<"a", JNum("1")>>, <<"b", JNum("1")>>, <<"a", JNum("2")>> >>)
DupVals == {ObjAA, ObjABA, JArr(<<ObjAA>>), JArr(<<JNum("1"), ObjABA>>),
            JArr(<<JArr(<<ObjAA>>)>>), JObj(<< <<"a", ObjAA>> >>)}
DupDocs == {JObj(<< <<k, v>> >>) : k \in InnerKeys, v \in DupVals}
           \cup {JObj(<< <<"a", JNum("1")>>, <<k, v>> >>) : k \in InnerKeys, v \in DupVals}
           \cup {JArr(<<ObjAA>>)}

\* the documents given to UnmarshalJSON in SpecCodec
Docs ==
    DupDocs \cup
    {JObj(<<>>)}
    \cup {JObj(<<p>>) : p \in RootPairs}
    \cup {JObj(<<p, q>>) : p \in RootPairs, q \in RootPairs}
    \cup {JObj(<<p, q, r>>) : p \in WidePairs, q \in WidePairs, r \in WidePairs}
    \cup {JNull, JArr(<<>>), JNum("1"), JStr("a")}

InitCodec ==
    /\ keys = New.keys
    /\ values = New.values
    /\ escapeHTML = New.escapeHTML
    /\ last = Called("New")
    /\ built = "mutation"
    /\ stamp = EmptyMap
    /\ deleted = {}
    /\ input \in Docs
    /\ jsonLastValueWins = FALSE
    /\ it = NoIter

NextCodec ==
    \/ last.op = "New" /\ \E on \in BOOLEAN : CallSetEscapeHTML(on)
    \/ last.op = "New" /\ CallSet("a", Num(1))
    \/ last.op \in {"New", "SetEscapeHTML", "Set"} /\ CallUnmarshalJSON(input)
    \/ last.op = "UnmarshalJSON" /\ last.err = "nil" /\ CallMarshalJSON
    \/ last.op = "UnmarshalJSON" /\ last.err = "nil" /\ CalljsonMarshal

SpecCodec == InitCodec /\ [][NextCodec]_vars

----------------------------------------------------------------------------
(* The variant with the duplicate-key policy: New(), possibly              *)
(* SetJSONLastValueWins and one Set, then UnmarshalJSON of the document    *)
(* the caller holds.                                                       *)

\* the map of this variant
SelfChecked == [keys |-> keys, values |-> values, escapeHTML |-> escapeHTML,
                jsonLastValueWins |-> jsonLastValueWins]

CallSetJSONLastValueWins(on) ==
    /\ jsonLastValueWins' = on
    /\ last' = Called("SetJSONLastValueWins")
    /\ UNCHANGED <<keys, values, escapeHTML, built, stamp, deleted, input, it>>

CallUnmarshalJSONChecked(b) ==
    LET r == UnmarshalJSON(SelfChecked, b) IN
    /\ Len(r.o.keys) <= MaxKeys
    /\ Become(r.o)
    /\ last' = [Called("UnmarshalJSON") EXCEPT !.doc = b, !.err = r.err, !.dup = r.key]
    /\ built' = IF last.op \in {"New", "SetJSONLastValueWins"} THEN "decodedNew"
                ELSE "decoded"
    /\ stamp' = EmptyMap
    /\ deleted' = {}
    /\ UNCHANGED <<input, jsonLastValueWins, it>>

NextChecked ==
    \/ last.op = "New" /\ \E on \in BOOLEAN : CallSetJSONLastValueWins(on)
    \/ last.op \in {"New", "SetJSONLastValueWins"} /\ CallSet("c", Num(2))
    \/ last.op \in {"New", "SetJSONLastValueWins", "Set"} /\ CallUnmarshalJSONChecked(input)

SpecChecked == InitCodec /\ [][NextChecked]_vars

----------------------------------------------------------------------------
(* The iterators over the map: PairsIterator and ValuesIterator.  An       *)
(* iterator holds the map by reference (the map of the state), its index   *)
(* and its length; the model adds the history of its Next calls.           *)

\* an iterator with index 0 and the number of keys as its length
NewIterator(kind, o) ==
    [kind |-> kind, index |-> 0, length |-> Len(o.keys), calls |-> 0, outs |-> <<>>]

\* it.Done()
Done(i) == i.index >= i.length

\* m.keys[index] with Go's 0-based index: a run-time panic past the end
KeysAt(o, index) ==
    IF index >= 0 /\ index < Len(o.keys)
    THEN [panic |-> FALSE, key |-> o.keys[index + 1]]
    ELSE [panic |-> TRUE, key |-> ""]

\* a Next that reads the key after advancing the index
PairsIteratorNextAfterIncrement(i, o) ==
    LET r == KeysAt(o, i.index + 1)
    IN  [it    |-> [i EXCEPT !.index = i.index + 1],
         panic |-> r.panic,
         out   |-> [key |-> r.key, value |-> ValueAt(o.values, r.key)]]

\* (*PairsIterator).Next
PairsIteratorNext(i, o) ==
    LET index == i.index
        r     == KeysAt(o, index)
    IN  [it    |-> [i EXCEPT !.index = index + 1],
         panic |-> r.panic,
         out   |-> [key |-> r.key, value |-> ValueAt(o.values, r.key)]]

\* (*ValuesIterator).Next
ValuesIteratorNext(i, o) ==
    LET index == i.index
        r     == KeysAt(o, index)
    IN  [it    |-> [i EXCEPT !.index = index + 1],
         panic |-> r.panic,
         out   |-> ValueAt(o.values, r.key)]

IteratorKinds == {"pairs", "values"}

CallNewIterator(kind) ==
    /\ it = NoIter
    /\ it' = NewIterator(kind, Self)
    /\ last' = Called("NewIterator")
    /\ UNCHANGED <<keys, values, escapeHTML, built, stamp, deleted, input, jsonLastValueWins>>

\* Next, called while Done() is false
CallNext ==
    /\ it # NoIter
    /\ ~Done(it)
    /\ LET r == IF it.kind = "pairs" THEN PairsIteratorNext(it, Self)
                ELSE ValuesIteratorNext(it, Self)
       IN  /\ it' = [r.it EXCEPT !.calls = it.calls + 1,
                                 !.outs  = IF r.panic THEN it.outs ELSE Append(it.outs, r.out)]
           /\ last' = [Called("Next") EXCEPT !.err = IF r.panic THEN "panic" ELSE "nil"]
    /\ UNCHANGED <<keys, values, escapeHTML, built, stamp, deleted, input, jsonLastValueWins>>

\* the map is built by Set and Delete, then iterated without being mutated
NextIter ==
    \/ it = NoIter /\ \E key \in KeySet, value \in SetValues : CallSet(key, value)
    \/ it = NoIter /\ \E key \in KeySet : CallDelete(key)
    \/ \E kind \in IteratorKinds : CallNewIterator(kind)
    \/ CallNext

SpecIter == Init /\ [][NextIter]_vars

----------------------------------------------------------------------------
(* Properties of the mutation API, checked under Spec.                     *)

\* Invariant I1 of the data model
I1(o) == NoDup(o.keys) /\ Range(o.keys) = DOMAIN o.values

\* C1: from New(), after any sequence of Set, Delete and Sort calls (any
\* keys, values and less function) the key sequence has no duplicate and
\* holds exactly the keys of the values mapping.
Thm_C1 == built \in {"mutation", "sorted"} => I1(Self)

Witness_C1 ==
    /\ built = "sorted"
    /\ last.op = "Delete" /\ last.had
    /\ Len(keys) = 2

\* C2: after every successful UnmarshalJSON the root map satisfies I1,
\* whatever the map held before and whatever the document.
Cex_C2 == (last.op = "UnmarshalJSON" /\ last.err = "nil") => I1(Self)

\* C3: Set(k, v) on a map that already contains k replaces the value of k
\* and leaves the key sequence exactly as it was.
Thm_C3 ==
    [][(last'.op = "Set" /\ last'.key \in DOMAIN values)
          => /\ keys' = keys
             /\ DOMAIN values' = DOMAIN values
             /\ values'[last'.key] = last'.val
             /\ \A k \in (DOMAIN values) \ {last'.key} : values'[k] = values[k]]_vars

Witness_C3 ==
    /\ last.op = "Set" /\ last.had /\ last.key = "a" /\ last.val = Num(2)
    /\ keys = <<"a", "b">>
    /\ values["a"] = Num(2)

\* C4: for a map built by Set and Delete calls only, Keys() lists exactly
\* the present keys, each once, in the order of their latest
\* insertion-while-absent: a key set while absent is last, also when it
\* was in the map before and deleted.
Thm_C4 ==
    built = "mutation" =>
        /\ Range(keys) = DOMAIN stamp
        /\ \A i, j \in DOMAIN keys : i < j => stamp[keys[i]] < stamp[keys[j]]

Witness_C4 ==
    /\ built = "mutation"
    /\ last.op = "Set" /\ last.key = "a" /\ ~last.had
    /\ "a" \in deleted
    /\ keys = <<"b", "c", "a">>

\* C5: Delete(k) on a map that contains k removes k from the key sequence
\* and from the values mapping, the other keys keeping their relative
\* order and their values; Delete(k) on a map without k changes nothing.
Cex_C5 ==
    [][last'.op = "Delete"
          => IF last'.key \in DOMAIN values
             THEN /\ keys' = SelectSeq(keys, LAMBDA x : x # last'.key)
                  /\ values' = [k \in (DOMAIN values) \ {last'.key} |-> values[k]]
             ELSE keys' = keys /\ values' = values]_vars

\* the first position of key k in the sequence ks
IndexOf(ks, k) == CHOOSE i \in DOMAIN ks : ks[i] = k /\ \A m \in 1..(i-1) : ks[m] # k

\* C10: Sort(less) is stable: under a strict weak order, keys whose pairs
\* are equal-ranked keep their relative order; with a less function that
\* is always false the key order is unchanged.
Cex_C10 ==
    [][(last'.op = "Sort" /\ StrictWeak(last'.less, PairsOf(Self)))
          => LET ps == PairsOf(Self) IN
             \A i, j \in DOMAIN ps :
                (/\ i < j
                 /\ ps[i].key # ps[j].key
                 /\ ~Less(last'.less, ps[i], ps[j])
                 /\ ~Less(last'.less, ps[j], ps[i]))
                => IndexOf(keys', ps[i].key) < IndexOf(keys', ps[j].key)]_vars

\* C11: after Sort(less) with a strict weak order over the (key, value)
\* pairs, no pair of the key sequence is less than one before it, each pair
\* carrying the key's current value.
Thm_C11 ==
    (last.op = "Sort" /\ StrictWeak(last.less, PairsOf(Self)))
    => Ordered(last.less, PairsOf(Self))

Witness_C11 ==
    /\ last.op = "Sort" /\ last.less = "byValueDesc"
    /\ keys = <<"c", "b", "a">>
    /\ values["c"] = Num(2) /\ values["b"] = Num(2) /\ values["a"] = Num(1)

\* whether the sequences s and t hold the same elements the same number of
\* times
SameBag(s, t) ==
    /\ Len(s) = Len(t)
    /\ \A x \in Range(s) \cup Range(t) :
          Cardinality({i \in DOMAIN s : s[i] = x}) = Cardinality({i \in DOMAIN t : t[i] = x})

\* C16: Sort(less) changes only the order of the keys: the key sequence
\* after the call is a permutation of the one before and the values
\* mapping is unchanged, for every less function.
Thm_C16 ==
    [][last'.op = "Sort" => (SameBag(keys, keys') /\ values' = values)]_vars

Witness_C16 ==
    /\ last.op = "Sort" /\ last.less = "always"
    /\ keys = <<"c", "a", "b">>
    /\ values = [k \in {"a", "b", "c"} |-> IF k = "b" THEN Num(2) ELSE Num(1)]

----------------------------------------------------------------------------
(* Properties of the codec, checked under SpecCodec.                       *)

\* whether no object of the document, at any depth, has a key twice
RECURSIVE NoRepeat(_)
NoRepeat(jv) ==
    CASE jv.j = "obj" -> /\ NoDup(PairKeys(jv.pairs))
                         /\ \A i \in DOMAIN jv.pairs : NoRepeat(jv.pairs[i][2])
      [] jv.j = "arr" -> \A i \in DOMAIN jv.elems : NoRepeat(jv.elems[i])
      [] OTHER        -> TRUE

\* C6: decoding a valid JSON object without repeated keys into a fresh
\* map succeeds and Keys() is the document order of the top-level keys,
\* whatever the values are.
Thm_C6 ==
    (/\ last.op = "UnmarshalJSON"
     /\ built = "decodedNew"
     /\ input.j = "obj"
     /\ NoDup(PairKeys(input.pairs)))
    => (last.err = "nil" /\ keys = PairKeys(input.pairs))

Witness_C6 ==
    /\ last.op = "UnmarshalJSON" /\ built = "decodedNew" /\ last.err = "nil"
    /\ input.j = "obj" /\ Len(input.pairs) = 2
    /\ input.pairs[1][2] = JStr("}")
    /\ input.pairs[2][2] \in Objs2
    /\ keys = <<"b", "a">>

\* whether the document value jv is stored as the dynamic value v with
\* every object in it, at any depth, as an ordered map whose key sequence
\* is the document order of the object's keys and whose values are those
\* of the object, scalars being as the typed pass produced them
RECURSIVE StoredAs(_, _)
StoredAs(jv, v) ==
    CASE jv.j = "obj" ->
            /\ v.t = "omap"
            /\ v.keys = PairKeys(jv.pairs)
            /\ DOMAIN v.values = Range(PairKeys(jv.pairs))
            /\ \A i \in DOMAIN jv.pairs : StoredAs(jv.pairs[i][2], v.values[jv.pairs[i][1]])
      [] jv.j = "arr" ->
            /\ v.t = "slice"
            /\ Len(v.e) = Len(jv.elems)
            /\ \A i \in DOMAIN jv.elems : StoredAs(jv.elems[i], v.e[i])
      [] OTHER -> v = Generic(jv)

NestedStored ==
    \A i \in DOMAIN input.pairs :
        /\ input.pairs[i][1] \in DOMAIN values
        /\ StoredAs(input.pairs[i][2], values[input.pairs[i][1]])

\* C7 (as claimed): after a successful decode every JSON object nested in
\* the document, at any depth, under a key or in an array, is stored as an
\* ordered map with the object's keys in document order and its values.
Cex_C7 ==
    (last.op = "UnmarshalJSON" /\ last.err = "nil" /\ input.j = "obj") => NestedStored

\* C7 (amended): the same for documents in which no object has a key twice.
Thm_C7 ==
    (last.op = "UnmarshalJSON" /\ last.err = "nil" /\ input.j = "obj" /\ NoRepeat(input))
    => NestedStored

Witness_C7 ==
    /\ last.op = "UnmarshalJSON" /\ last.err = "nil"
    /\ input = JObj(<< <<"b", JArr(<<JArr(<<JNum("1"), ObjBA>>), JObj(<< <<"a", JNum("1")>> >>)>>)>>,
                       <<"a", JObj(<< <<"b", JArr(<<ObjBA>>)>>, <<"a", JNum("1")>> >>)>> >>)
    /\ values["b"].e[1].e[2].keys = <<"b", "a">>
    /\ values["a"].values["b"].e[1].keys = <<"b", "a">>

\* the tokens a JSON text means: whitespace dropped, string literals
\* unescaped
Lex(chunks) ==
    LET kept == SelectSeq(chunks, LAMBDA c : c # "\n")
    IN  [i \in DOMAIN kept |->
            IF kept[i] = Quote("<", TRUE) THEN Quote("<", FALSE) ELSE kept[i]]

\* the tokens the document means, numbers by their value
RECURSIVE DocLex(_)
DocLex(jv) ==
    CASE jv.j = "null" -> <<"null">>
      [] jv.j = "num"  -> <<FormatNum(ParseNum(jv.lit))>>
      [] jv.j = "str"  -> <<Quote(jv.s, FALSE)>>
      [] jv.j = "arr"  ->
            <<"[">> \o Join([i \in DOMAIN jv.elems |-> DocLex(jv.elems[i])], <<",">>)
                    \o <<"]">>
      [] jv.j = "obj"  ->
            <<"{">> \o Join([i \in DOMAIN jv.pairs |->
                                <<Quote(jv.pairs[i][1], FALSE), ":">>
                                \o DocLex(jv.pairs[i][2])], <<",">>)
                    \o <<"}">>

\* C8: for an object b without repeated keys, encoding the map decoded
\* from b gives the keys of b in the same order with the same values at
\* every level; {"a":{}} and {"a":[]} come back as exactly these bytes.
Thm_C8 ==
    (/\ last.op = "jsonMarshal"
     /\ built = "decodedNew"
     /\ input.j = "obj"
     /\ NoRepeat(input))
    => /\ Lex(last.out) = DocLex(input)
       /\ input = JObj(<< <<"a", JObj(<<>>)>> >>)
             => last.out = <<"{", "\"a\"", ":", "{", "}", "}">>
       /\ input = JObj(<< <<"a", JArr(<<>>)>> >>)
             => last.out = <<"{", "\"a\"", ":", "[", "]", "}">>

Witness_C8 ==
    /\ last.op = "jsonMarshal" /\ built = "decodedNew"
    /\ input = JObj(<< <<"b", JObj(<< <<"b", JArr(<<ObjBA>>)>>, <<"a", JNum("1")>> >>)>>,
                       <<"a", JNum("2.0")>> >>)
    /\ Lex(last.out) = DocLex(input)

\* the bytes C9 says the encoder returns for the map o
ClaimedBytes(o) ==
    <<"{">>
    \o Flatten([i \in DOMAIN o.keys |->
                   (IF i > 1 THEN <<",">> ELSE <<>>)
                   \o <<Quote(o.keys[i], o.escapeHTML)>>
                   \o <<":">>
                   \o jsonEncode(ValueAt(o.values, o.keys[i]), o.escapeHTML)])
    \o <<"}">>

\* C9: MarshalJSON returns exactly '{', then per key in stored order a ','
\* before every key but the first, the key as a JSON string, ':' and the
\* encoded value, then '}', and no other byte.
Cex_C9 == last.op = "MarshalJSON" => last.out = ClaimedBytes(Self)

\* the distinct keys of an object's pairs in the order of their first
\* occurrences, and in the order of their last occurrences
FirstOrder(pairs) ==
    LET ks  == PairKeys(pairs)
        idx == SelectSeq([i \in DOMAIN ks |-> i], LAMBDA i : \A m \in 1..(i-1) : ks[m] # ks[i])
    IN  [n \in DOMAIN idx |-> ks[idx[n]]]

LastOrder(pairs) ==
    LET ks  == PairKeys(pairs)
        idx == SelectSeq([i \in DOMAIN ks |-> i],
                         LAMBDA i : \A m \in (i+1)..Len(ks) : ks[m] # ks[i])
    IN  [n \in DOMAIN idx |-> ks[idx[n]]]

\* whether every key of the document's top level is in the map once, with
\* the value of its last occurrence
LastValueWins ==
    /\ NoDup(keys)
    /\ Range(keys) = Range(PairKeys(input.pairs))
    /\ DOMAIN values = Range(PairKeys(input.pairs))
    /\ \A k \in Range(PairKeys(input.pairs)) :
          LET v == input.pairs[LastIndexOf(input.pairs, k)][2]
          IN  NoRepeat(v) => StoredAs(v, values[k])

\* a successful decode into a fresh map of an object with a key more than
\* once at its top level
DecodedRepeated ==
    /\ last.op = "UnmarshalJSON" /\ last.err = "nil" /\ built = "decodedNew"
    /\ input.j = "obj" /\ ~NoDup(PairKeys(input.pairs))

\* C13 (as claimed): decoding an object in which a key occurs more than
\* once gives a map with the key once, the value of its last occurrence
\* and the position of its first occurrence.
Cex_C13 == DecodedRepeated => (LastValueWins /\ keys = FirstOrder(input.pairs))

\* C13 (amended): the same, the position being that of the key's last
\* occurrence: the keys are in the order of their last occurrences.
Thm_C13 == DecodedRepeated => (LastValueWins /\ keys = LastOrder(input.pairs))

Witness_C13 ==
    /\ DecodedRepeated
    /\ input = JObj(<< <<"a", JNum("1")>>, <<"b", JNum("1")>>, <<"a", JStr("a")>> >>)
    /\ keys = <<"b", "a">>
    /\ values["a"] = Str("a")

\* C15: the decode of a document whose top-level value is not an object
\* fails with a type error, and with no other error.
Cex_C15 ==
    (last.op = "UnmarshalJSON" /\ input.j # "obj") => last.err = "UnmarshalTypeError"

\* whether every ordered map in the dynamic value v, at any depth, has
\* the escapeHTML setting esc
RECURSIVE NestedEscape(_, _)
NestedEscape(v, esc) ==
    CASE v.t = "omap"  -> /\ v.escapeHTML = esc
                          /\ \A k \in DOMAIN v.values : NestedEscape(v.values[k], esc)
      [] v.t = "map"   -> \A k \in DOMAIN v.m : NestedEscape(v.m[k], esc)
      [] v.t = "slice" -> \A i \in DOMAIN v.e : NestedEscape(v.e[i], esc)
      [] OTHER         -> TRUE

\* C17: every nested ordered map that a decode stores in the result, at
\* any depth, under keys or in arrays, has the escapeHTML setting of the
\* root map; a map from New() has escapeHTML true.
Thm_C17 ==
    /\ last.op = "New" => escapeHTML = TRUE
    /\ (last.op = "UnmarshalJSON" /\ last.err = "nil")
          => \A k \in DOMAIN values : NestedEscape(values[k], escapeHTML)

Witness_C17 ==
    /\ last.op = "UnmarshalJSON" /\ last.err = "nil"
    /\ escapeHTML = FALSE
    /\ input = JObj(<< <<"b", JObj(<< <<"b", JArr(<<JNum("1"), ObjBA>>)>>, <<"a", JNum("1")>> >>)>>,
                       <<"a", JArr(<<JArr(<<ObjBA>>)>>)>> >>)
    /\ values["b"].escapeHTML = FALSE
    /\ values["b"].values["b"].e[2].escapeHTML = FALSE
    /\ values["a"].e[1].e[1].escapeHTML = FALSE

----------------------------------------------------------------------------
(* Properties of the variant with the duplicate-key policy, checked under  *)
(* SpecChecked.                                                            *)

\* the keys that some object of the document, at any depth, has twice at
\* its own level
RECURSIVE RepeatedKeys(_)
RepeatedKeys(jv) ==
    CASE jv.j = "obj" ->
            {jv.pairs[i][1] : i \in {n \in DOMAIN jv.pairs :
                                        \E m \in DOMAIN jv.pairs : m # n /\ jv.pairs[m][1] = jv.pairs[n][1]}}
            \cup UNION {RepeatedKeys(jv.pairs[i][2]) : i \in DOMAIN jv.pairs}
      [] jv.j = "arr" -> UNION {RepeatedKeys(jv.elems[i]) : i \in DOMAIN jv.elems}
      [] OTHER        -> {}

\* C12: with the strict policy (jsonLastValueWins off) the decode fails
\* with the duplicate-key error, naming the key, exactly when some object
\* of the document, at any depth and also inside arrays, has a key twice
\* at its own level; a key shared by two different objects is no duplicate.
Thm_C12 ==
    (last.op = "UnmarshalJSON" /\ ~jsonLastValueWins)
    => /\ (last.err = ErrJSONDuplicate) <=> ~NoRepeat(input)
       /\ last.err = ErrJSONDuplicate => last.dup \in RepeatedKeys(input)

Witness_C12 ==
    /\ last.op = "UnmarshalJSON" /\ ~jsonLastValueWins
    /\ input = JObj(<< <<"a", JNum("1")>>, <<"b", JArr(<<JArr(<<ObjAA>>)>>)>> >>)
    /\ last.err = ErrJSONDuplicate /\ last.dup = "a"

\* C14: a decode that returns an error leaves the key sequence and the
\* values mapping as they were before the call.
Cex_C14 ==
    [][(last'.op = "UnmarshalJSON" /\ last'.err # "nil")
          => (keys' = keys /\ values' = values)]_vars

\* how deep the objects and arrays of a document are nested: the number of
\* decodeOrderedMap, decodeSlice or CheckDuplicate calls active at once
Setmax(S) == IF S = {} THEN 0 ELSE CHOOSE x \in S : \A y \in S : y <= x

RECURSIVE Depth(_)
Depth(jv) ==
    CASE jv.j = "obj" -> 1 + Setmax({Depth(jv.pairs[i][2]) : i \in DOMAIN jv.pairs})
      [] jv.j = "arr" -> 1 + Setmax({Depth(jv.elems[i]) : i \in DOMAIN jv.elems})
      [] OTHER        -> 0

\* C18: the decode of a document nested deeper than the maximum depth
\* (and with no other fault: no key twice in an object) fails with a
\* DepthExceeded error.
Cex_C18 ==
    (last.op = "UnmarshalJSON" /\ Depth(input) > MaxDepth /\ NoRepeat(input))
    => last.err = "DepthExceeded"

----------------------------------------------------------------------------
(* Properties of the iterators, checked under SpecIter.                    *)

\* what the n-th Next call of an iterator of the given kind is to return
Entry(kind, n) ==
    IF kind = "pairs" THEN [key |-> keys[n], value |-> values[keys[n]]]
    ELSE values[keys[n]]

\* C19: an iterator made with index 0 and the number of keys as length,
\* over a map not mutated meanwhile, returns on its i-th Next (called
\* while Done() is false) the i-th key with its value, so each entry once
\* in stored order; Done() is true after exactly length calls; and no Next
\* reads past the end of the key sequence.
Thm_C19 ==
    it # NoIter =>
        /\ it.calls <= Len(keys)
        /\ Done(it) <=> it.calls = Len(keys)
        /\ it.outs = [n \in 1..it.calls |-> Entry(it.kind, n)]
        /\ last.op = "Next" => last.err = "nil"

Witness_C19 ==
    /\ it # NoIter /\ it.kind = "pairs"
    /\ last.op = "Next" /\ Done(it)
    /\ keys = <<"b", "c", "a">>
    /\ it.outs[3] = [key |-> "a", value |-> Num(2)]

====
